---------------------------- MODULE Spec2Model ----------------------------
(***************************************************************************)
(* Model of the green-building scoring engine of src/greenscore.py: the    *)
(* GreenScoreCalculator (eligibility gate, credit evaluator over five      *)
(* calculation kinds, score aggregator, certification resolver and the     *)
(* evaluate_enhanced pipeline).                                            *)
(*                                                                         *)
(* Python values are modelled as tagged records [t, n]:                    *)
(*   absent key, None, int n, bool (n = 0/1, as Python's bool is an int),  *)
(*   and str (n names the string).  A Python exception (TypeError from     *)
(*   ordering a str or None against a number) is the outcome raised=TRUE.  *)
(***************************************************************************)
EXTENDS Integers, Sequences, FiniteSets, TLC

VARIABLES
    standard,       \* self.standard, the rubric the calculator holds
    op,             \* the operation that ran last ("idle" when none is pending)
    building_data,  \* the record passed to the last operation
    credit,         \* the credit passed to calculate_credit_points
    total_score,    \* the score passed to get_certification_level
    ret,            \* what the last operation returned (or that it raised)
    evals,          \* credits evaluated by the last operation
    answers_by_name \* the caller's dict of a name-based request, after the call

vars ==
    <<standard, op, building_data, credit, total_score, ret, evals,
      answers_by_name>>

---------------------------------------------------------------------------
(* Bounds of the model *)

\* the numbers of a record range over 0..MaxVal; thresholds and range
\* bounds are 0, 1 or MaxVal
MaxVal == 2
\* a condition, range or group is worth 1 or MaxPoints points
MaxPoints == 2
\* conditions, options, ranges, parts, categories and levels per list
MaxLen == 2

---------------------------------------------------------------------------
(* Python values *)

Absent == [t |-> "absent", n |-> 0]
Null == [t |-> "null", n |-> 0]
Num(i) == [t |-> "num", n |-> i]
Bool(b) == [t |-> "bool", n |-> IF b THEN 1 ELSE 0]
Str(i) == [t |-> "str", n |-> i]

\* the strings of the model
Commercial == Str(1)
Institutional == Str(2)
Residential == Str(3)
Text == Str(0)

\* dict.get(key): None for a key that is absent
Get(d, k) == IF d[k] = Absent THEN Null ELSE d[k]

\* dict.get(key, default)
GetDefault(d, k, default) == IF d[k] = Absent THEN default ELSE d[k]

\* int and bool order against a number; str and None raise TypeError
IsNumeric(v) == v.t \in {"num", "bool"}

\* Python ==: numbers and bools by value, everything else by identity
PyEq(a, b) ==
    IF IsNumeric(a) /\ IsNumeric(b) THEN a.n = b.n ELSE a = b

Min(a, b) == IF a <= b THEN a ELSE b

safe_num(val) == IF val = Null THEN Num(0) ELSE val

---------------------------------------------------------------------------
(* calculate_credit_points *)

Outcome(name, result, points) ==
    [condition |-> name, result |-> result, points |-> points]

Returned(points, condition_results) ==
    [raised |-> FALSE, points |-> points, conditions |-> condition_results]

Raised == [raised |-> TRUE, points |-> 0, conditions |-> <<>>]

\* a loop that stops at the first condition that is not met
RECURSIVE conditional_sum_loop_short(_, _, _, _)
conditional_sum_loop_short(conds, data, total, condition_results) ==
    IF conds = <<>> THEN Returned(total, condition_results)
    ELSE LET cond == Head(conds)
             val == safe_num(Get(data, cond.param))
         IN  IF ~IsNumeric(val) THEN Raised
             ELSE IF val.n >= cond.threshold
             THEN conditional_sum_loop_short(Tail(conds), data,
                      total + cond.points,
                      Append(condition_results,
                             Outcome(cond.name, TRUE, cond.points)))
             ELSE Returned(total,
                      Append(condition_results, Outcome(cond.name, FALSE, 0)))

RECURSIVE conditional_sum_loop(_, _, _, _)
conditional_sum_loop(conds, data, total, condition_results) ==
    IF conds = <<>> THEN Returned(total, condition_results)
    ELSE LET cond == Head(conds)
             val == safe_num(Get(data, cond.param))
         IN  IF ~IsNumeric(val) THEN Raised
             ELSE IF val.n >= cond.threshold
             THEN conditional_sum_loop(Tail(conds), data, total + cond.points,
                      Append(condition_results,
                             Outcome(cond.name, TRUE, cond.points)))
             ELSE conditional_sum_loop(Tail(conds), data, total,
                      Append(condition_results, Outcome(cond.name, FALSE, 0)))

conditional_sum(c, data) ==
    LET r == conditional_sum_loop(c.calculation.conditions, data, 0, <<>>)
    IN  IF r.raised THEN Raised
        ELSE Returned(Min(r.points, c.max_points), r.conditions)

\* the scan of one option group: the first condition that holds, if any
NoHit == [raised |-> FALSE, hit |-> FALSE, name |-> ""]

RECURSIVE group_scan(_, _)
group_scan(conditions, data) ==
    IF conditions = <<>> THEN NoHit
    ELSE LET condition == Head(conditions)
             val == Get(data, condition.param)
             compared == condition.threshold # Absent /\ val # Null
         IN  IF compared /\ ~IsNumeric(val)
             THEN [raised |-> TRUE, hit |-> FALSE, name |-> ""]
             ELSE IF compared /\ val.n >= condition.threshold.n
             THEN [raised |-> FALSE, hit |-> TRUE, name |-> condition.name]
             ELSE IF condition.value # Absent /\ PyEq(val, condition.value)
             THEN [raised |-> FALSE, hit |-> TRUE, name |-> condition.name]
             ELSE group_scan(Tail(conditions), data)

\* a failed group that records its first condition only
group_failed_first(conditions) ==
    IF conditions = <<>> THEN <<>>
    ELSE <<Outcome(Head(conditions).name, FALSE, 0)>>

\* every condition of a group as an unsatisfied outcome
RECURSIVE group_failed(_)
group_failed(conditions) ==
    IF conditions = <<>> THEN <<>>
    ELSE <<Outcome(Head(conditions).name, FALSE, 0)>>
             \o group_failed(Tail(conditions))

\* option.get("points", 1)
group_max(option) == GetDefault(option, "points", Num(1)).n

\* a group that pays once for every condition that holds
group_points_per_condition(option, data) ==
    group_max(option) *
        Cardinality({i \in DOMAIN option.conditions :
                        group_scan(<<option.conditions[i]>>, data).hit})

\* what one option group adds to the credit's points
group_points(option, data) ==
    IF group_scan(option.conditions, data).hit THEN group_max(option) ELSE 0

RECURSIVE either_or_loop(_, _, _, _)
either_or_loop(options, data, points, condition_results) ==
    IF options = <<>> THEN Returned(points, condition_results)
    ELSE LET option == Head(options)
             scan == group_scan(option.conditions, data)
             hit_results ==
                 IF scan.hit
                 THEN Append(condition_results,
                             Outcome(scan.name, TRUE, group_max(option)))
                 ELSE condition_results
         IN  IF scan.raised THEN Raised
             ELSE either_or_loop(Tail(options), data,
                      points + group_points(option, data),
                      IF group_points(option, data) = 0
                      THEN hit_results \o group_failed(option.conditions)
                      ELSE hit_results)

either_or(c, data) ==
    LET r == either_or_loop(c.calculation.options, data, 0, <<>>)
    IN  IF r.raised THEN Raised
        ELSE Returned(Min(r.points, c.max_points), r.conditions)

\* a scan in which the last range that holds the value wins
RECURSIVE range_scan_last(_, _)
range_scan_last(ranges, val) ==
    IF ranges = <<>> THEN [raised |-> FALSE, found |-> FALSE, points |-> 0]
    ELSE LET r == Head(ranges)
             rest == range_scan_last(Tail(ranges), val)
         IN  IF (r.min # Null \/ r.max # Null) /\ ~IsNumeric(val)
             THEN [raised |-> TRUE, found |-> FALSE, points |-> 0]
             ELSE IF rest.raised \/ rest.found THEN rest
             ELSE IF /\ (r.min = Null \/ val.n >= r.min.n)
                     /\ (r.max = Null \/ val.n <= r.max.n)
             THEN [raised |-> FALSE, found |-> TRUE, points |-> r.points]
             ELSE rest

\* the scan of a list of ranges for a value: the first range that holds it
RECURSIVE range_scan(_, _)
range_scan(ranges, val) ==
    IF ranges = <<>> THEN [raised |-> FALSE, found |-> FALSE, points |-> 0]
    ELSE LET r == Head(ranges)
             min_val == r.min
             max_val == r.max
         IN  IF (min_val # Null \/ max_val # Null) /\ ~IsNumeric(val)
             THEN [raised |-> TRUE, found |-> FALSE, points |-> 0]
             ELSE LET min_ok == min_val = Null \/ val.n >= min_val.n
                      max_ok == max_val = Null \/ val.n <= max_val.n
                  IN  IF min_ok /\ max_ok
                      THEN [raised |-> FALSE, found |-> TRUE,
                            points |-> r.points]
                      ELSE range_scan(Tail(ranges), val)

range_based(c, data) ==
    LET val == safe_num(Get(data, c.calculation.param))
        scan == range_scan(c.calculation.ranges, val)
    IN  IF scan.raised THEN Raised
        ELSE IF scan.found
        THEN Returned(scan.points,
                      <<Outcome(c.calculation.name, TRUE, scan.points)>>)
        ELSE Returned(0, <<Outcome(c.calculation.name, FALSE, 0)>>)

RECURSIVE composite_sum_loop(_, _, _, _)
composite_sum_loop(parts, data, score, condition_results) ==
    IF parts = <<>> THEN Returned(score, condition_results)
    ELSE LET part == Head(parts)
             val == safe_num(Get(data, part.param))
             scan == range_scan(part.ranges, val)
         IN  IF scan.raised THEN Raised
             ELSE IF scan.found
             THEN composite_sum_loop(Tail(parts), data, score + scan.points,
                      Append(condition_results,
                             Outcome(part.name, TRUE, scan.points)))
             ELSE composite_sum_loop(Tail(parts), data, score,
                                     condition_results)

composite_sum(c, data) ==
    LET r == composite_sum_loop(c.calculation.parts, data, 0, <<>>)
    IN  IF r.raised THEN Raised
        ELSE Returned(Min(r.points, c.max_points), r.conditions)

\* calculation.get("additional_requirements", {}) of a credit without one
NoRequirement == [present |-> FALSE, param |-> "", min_required |-> Absent]

\* a credit awarded when either of the two requirements is met
single_condition_either(c, data) ==
    LET cond == c.calculation.condition
        min_req == c.calculation.additional_requirements
        val == safe_num(Get(data, cond.param))
        min_val == IF min_req.present
                   THEN safe_num(Get(data, min_req.param))
                   ELSE Num(0)
        min_required == GetDefault(min_req, "min_required", Num(0)).n
    IN  IF ~IsNumeric(val) THEN Raised
        ELSE IF val.n >= cond.threshold
        THEN Returned(cond.points, <<Outcome(cond.name, TRUE, cond.points)>>)
        ELSE IF ~IsNumeric(min_val) THEN Raised
        ELSE IF min_val.n >= min_required
        THEN Returned(cond.points, <<Outcome(cond.name, TRUE, cond.points)>>)
        ELSE Returned(0, <<Outcome(cond.name, FALSE, 0)>>)

single_condition(c, data) ==
    LET cond == c.calculation.condition
        min_req == c.calculation.additional_requirements
        val == safe_num(Get(data, cond.param))
        min_val == IF min_req.present
                   THEN safe_num(Get(data, min_req.param))
                   ELSE Num(0)
        min_required == GetDefault(min_req, "min_required", Num(0)).n
    IN  IF ~IsNumeric(val) THEN Raised
        ELSE IF ~(val.n >= cond.threshold)
        THEN Returned(0, <<Outcome(cond.name, FALSE, 0)>>)
        ELSE IF ~IsNumeric(min_val) THEN Raised
        ELSE IF min_val.n >= min_required
        THEN Returned(cond.points, <<Outcome(cond.name, TRUE, cond.points)>>)
        ELSE Returned(0, <<Outcome(cond.name, FALSE, 0)>>)

calculate_credit_points(c, data) ==
    LET calc_type == c.calculation.type
    IN  CASE calc_type = "conditional_sum" -> conditional_sum(c, data)
          [] calc_type = "either_or" -> either_or(c, data)
          [] calc_type = "range_based" -> range_based(c, data)
          [] calc_type = "composite_sum" -> composite_sum(c, data)
          [] calc_type = "single_condition" -> single_condition(c, data)
          [] OTHER -> Returned(0, <<>>)

---------------------------------------------------------------------------
(* The evaluator over a rubric: eligibility gate, aggregator, resolver *)

EligibilityRaised == [raised |-> TRUE, eligible |-> FALSE, reason |-> ""]

\* a gate that lets a record without a building type through
check_eligibility_open(std, data) ==
    LET criteria == std.eligibility_criteria
        years == GetDefault(data, "operational_years", Num(0))
    IN  IF data["building_type"] # Absent
               /\ data["building_type"] \notin criteria.building_type
        THEN [raised |-> FALSE, eligible |-> FALSE,
              reason |-> "Building type not eligible"]
        ELSE IF ~IsNumeric(years) THEN EligibilityRaised
        ELSE IF years.n < criteria.operational_years
        THEN [raised |-> FALSE, eligible |-> FALSE,
              reason |-> "Building has not been operational long enough"]
        ELSE [raised |-> FALSE, eligible |-> TRUE, reason |-> "Eligible"]

check_eligibility(std, data) ==
    LET criteria == std.eligibility_criteria
        years == GetDefault(data, "operational_years", Num(0))
    IN  IF Get(data, "building_type") \notin criteria.building_type
        THEN [raised |-> FALSE, eligible |-> FALSE,
              reason |-> "Building type not eligible"]
        ELSE IF ~IsNumeric(years) THEN EligibilityRaised
        ELSE IF years.n < criteria.operational_years
        THEN [raised |-> FALSE, eligible |-> FALSE,
              reason |-> "Building has not been operational long enough"]
        ELSE [raised |-> FALSE, eligible |-> TRUE, reason |-> "Eligible"]

\* a dict with key k set to v
Put(m, k, v) == [x \in DOMAIN m \cup {k} |-> IF x = k THEN v ELSE m[x]]

EmptyDict == [x \in {} |-> 0]

\* the one element of a singleton set: {F(v) : v \in {e}} computes e once
Only(S) == CHOOSE x \in S : TRUE

\* a loop body that records the running sum of the category as the
\* credit's points
credit_step_running(c, data, acc) ==
    Only({IF r.raised
          THEN [acc EXCEPT !.raised = TRUE, !.evals = @ + 1]
          ELSE [acc EXCEPT
                   !.credit_scores = Put(@, c.sub_id,
                       [points |-> acc.cat_score + r.points,
                        conditions |-> r.conditions]),
                   !.cat_score = @ + r.points,
                   !.evals = @ + 1] :
          r \in {calculate_credit_points(c, data)}})

\* one pass of the inner loop of calculate_total_score: a credit is
\* evaluated, recorded under its sub id and added to the category's sum
credit_step(c, data, acc) ==
    Only({IF r.raised
          THEN [acc EXCEPT !.raised = TRUE, !.evals = @ + 1]
          ELSE [acc EXCEPT
                   !.credit_scores = Put(@, c.sub_id,
                       [points |-> r.points, conditions |-> r.conditions]),
                   !.cat_score = @ + r.points,
                   !.evals = @ + 1] :
          r \in {calculate_credit_points(c, data)}})

RECURSIVE credit_loop(_, _, _)
credit_loop(credits, data, acc) ==
    IF credits = <<>> \/ acc.raised THEN acc
    ELSE Only({credit_loop(Tail(credits), data, next) :
               next \in {credit_step(Head(credits), data, acc)}})

\* a category score that is not clamped to the category's max
category_score_unclamped(cat_score, category) == cat_score

\* the score of a category once its credits are summed
category_score(cat_score, category) == Min(cat_score, category.max_points)

\* one pass of the outer loop: a category's credits, then its clamped score
category_step(category, data, acc) ==
    Only({IF inner.raised THEN inner
          ELSE [inner EXCEPT
                   !.category_scores = Put(@, category.id,
                       category_score(inner.cat_score, category)),
                   !.total_score =
                       @ + category_score(inner.cat_score, category)] :
          inner \in {credit_loop(category.credits, data,
                                 [acc EXCEPT !.cat_score = 0])}})

RECURSIVE category_loop(_, _, _)
category_loop(categories, data, acc) ==
    IF categories = <<>> \/ acc.raised THEN acc
    ELSE Only({category_loop(Tail(categories), data, next) :
               next \in {category_step(Head(categories), data, acc)}})

calculate_total_score(std, data) ==
    Only({[raised |-> r.raised, total_score |-> r.total_score,
           category_scores |-> r.category_scores,
           credit_scores |-> r.credit_scores, evals |-> r.evals] :
          r \in {category_loop(std.categories, data,
                     [raised |-> FALSE, total_score |-> 0, cat_score |-> 0,
                      category_scores |-> EmptyDict,
                      credit_scores |-> EmptyDict, evals |-> 0])}})

\* a level whose upper bound is exclusive
level_holds_exclusive(level, score) ==
    level.min_points <= score /\ score < level.max_points

\* whether a certification level holds a score
level_holds(level, score) ==
    level.min_points <= score /\ score <= level.max_points

RECURSIVE level_scan(_, _)
level_scan(levels, score) ==
    IF levels = <<>> THEN "No Certification"
    ELSE IF level_holds(Head(levels), score) THEN Head(levels).name
    ELSE level_scan(Tail(levels), score)

get_certification_level(std, score) ==
    level_scan(std.scoring_info.certification_levels, score)

RaisedResult(n) == [raised |-> TRUE, result |-> [error |-> TRUE], evals |-> n]

\* the result of evaluate_enhanced for an eligible record
scored(std, t) ==
    IF t.raised THEN RaisedResult(t.evals)
    ELSE [raised |-> FALSE, evals |-> t.evals,
          result |-> [eligible |-> TRUE,
                      green_score |-> t.total_score,
                      category_scores |-> t.category_scores,
                      credit_scores |-> t.credit_scores,
                      certification_level |->
                          get_certification_level(std, t.total_score)]]

\* a pipeline that scores the record before it looks at the gate
evaluate_enhanced_ungated(std, data) ==
    LET e == check_eligibility(std, data)
    IN  Only({IF e.raised THEN RaisedResult(t.evals)
              ELSE IF ~e.eligible
              THEN [raised |-> FALSE, evals |-> t.evals,
                    result |-> [eligible |-> FALSE, reason |-> e.reason]]
              ELSE scored(std, t) :
              t \in {calculate_total_score(std, data)}})

evaluate_enhanced(std, data) ==
    LET e == check_eligibility(std, data)
    IN  IF e.raised THEN RaisedResult(0)
        ELSE IF ~e.eligible
        THEN [raised |-> FALSE, evals |-> 0,
              result |-> [eligible |-> FALSE, reason |-> e.reason]]
        ELSE Only({scored(std, t) :
                   t \in {calculate_total_score(std, data)}})

---------------------------------------------------------------------------
(* The credits of a rubric evaluated one by one in any order, each by the
   call of line 123, and the results put together in rubric order by the
   bookkeeping of lines 124-128 and the resolver *)

\* the positions of the credits of a rubric: category i, credit j
Positions(std) ==
    UNION {{<<i, j>> : j \in DOMAIN std.categories[i].credits} :
               i \in DOMAIN std.categories}

\* the points of the first n credits of category i, summed
RECURSIVE points_sum(_, _, _)
points_sum(results, i, n) ==
    IF n = 0 THEN 0
    ELSE results[<<i, n>>].points + points_sum(results, i, n - 1)

\* credit_scores once the first n credits of category i are recorded
RECURSIVE recorded_credits(_, _, _, _, _)
recorded_credits(std, results, i, n, credit_scores) ==
    IF n = 0 THEN credit_scores
    ELSE Put(recorded_credits(std, results, i, n - 1, credit_scores),
             std.categories[i].credits[n].sub_id,
             [points |-> results[<<i, n>>].points,
              conditions |-> results[<<i, n>>].conditions])

\* the totals and dicts once the first k categories are put together
RECURSIVE assembled(_, _, _)
assembled(std, results, k) ==
    IF k = 0
    THEN [total_score |-> 0, category_scores |-> EmptyDict,
          credit_scores |-> EmptyDict]
    ELSE Only({[total_score |-> before.total_score + score,
                category_scores |->
                    Put(before.category_scores, std.categories[k].id, score),
                credit_scores |->
                    recorded_credits(std, results, k,
                        Len(std.categories[k].credits),
                        before.credit_scores)] :
               before \in {assembled(std, results, k - 1)},
               score \in {Min(points_sum(results, k,
                                  Len(std.categories[k].credits)),
                              std.categories[k].max_points)}})

\* the result put together from the per-credit results, or the error of a
\* credit that raised
aggregate(std, results) ==
    IF \E pos \in DOMAIN results : results[pos].raised
    THEN [raised |-> TRUE]
    ELSE Only({[raised |-> FALSE, total_score |-> a.total_score,
                category_scores |-> a.category_scores,
                credit_scores |-> a.credit_scores,
                certification_level |->
                    get_certification_level(std, a.total_score)] :
               a \in {assembled(std, results, Len(std.categories))}})

---------------------------------------------------------------------------
(* The name-based entry points: the name/param index, evaluate_named and
   calculate_green_score *)

\* the param keys of a record, and every key the evaluator reads
Params == {"p1", "p2"}
Keys == {"building_type", "operational_years"} \cup Params

\* q.get(field) is truthy: the field is there and is not empty
Truthy(q, field) == field \in DOMAIN q /\ q[field] # ""

\* key in d, for a dict whose missing keys read Absent
InDict(d, k) == k \in DOMAIN d /\ d[k] # Absent

\* d.get(k, default) of such a dict
DictGet(d, k, default) == IF InDict(d, k) THEN d[k] ELSE default

\* the conditions of the option groups, group after group
RECURSIVE option_questions(_)
option_questions(options) ==
    IF options = <<>> THEN <<>>
    ELSE Head(options).conditions \o option_questions(Tail(options))

\* the questions one credit yields
credit_questions(c) ==
    LET calc == c.calculation
    IN  CASE calc.type = "conditional_sum" -> calc.conditions
          [] calc.type = "either_or" -> option_questions(calc.options)
          [] calc.type = "range_based" -> <<calc>>
          [] calc.type = "composite_sum" -> calc.parts
          [] calc.type = "single_condition" ->
                 <<calc.condition>> \o
                     (IF calc.additional_requirements.present
                      THEN <<calc.additional_requirements>> ELSE <<>>)
          [] OTHER -> <<>>

RECURSIVE category_questions(_)
category_questions(credits) ==
    IF credits = <<>> THEN <<>>
    ELSE credit_questions(Head(credits)) \o category_questions(Tail(credits))

\* every question of the rubric, in the order the generator yields them
RECURSIVE iter_questions(_)
iter_questions(categories) ==
    IF categories = <<>> THEN <<>>
    ELSE category_questions(Head(categories).credits)
             \o iter_questions(Tail(categories))

\* name_to_param[name] = param on a dict that keeps insertion order: a new
\* name goes last, a known name keeps its place and takes the new param
PutOrdered(items, name, param) ==
    IF \E i \in DOMAIN items : items[i].name = name
    THEN [i \in DOMAIN items |->
             IF items[i].name = name THEN [name |-> name, param |-> param]
             ELSE items[i]]
    ELSE Append(items, [name |-> name, param |-> param])

RECURSIVE name_param_loop(_, _)
name_param_loop(questions, maps) ==
    IF questions = <<>> THEN maps
    ELSE LET q == Head(questions)
         IN  IF Truthy(q, "name") /\ Truthy(q, "param")
             THEN name_param_loop(Tail(questions),
                      [name_to_param |->
                           PutOrdered(maps.name_to_param, q.name, q.param),
                       name_to_input_type |->
                           IF Truthy(q, "input_type")
                           THEN Put(maps.name_to_input_type, q.name,
                                    q.input_type)
                           ELSE maps.name_to_input_type])
             ELSE name_param_loop(Tail(questions), maps)

build_name_param_maps(std) ==
    name_param_loop(iter_questions(std.categories),
                    [name_to_param |-> <<>>, name_to_input_type |-> EmptyDict])

\* what a skipped input reads: False for a boolean input, else 0
skipped_value(name_to_input_type, name) ==
    IF name \in DOMAIN name_to_input_type
           /\ name_to_input_type[name] = "boolean"
    THEN Bool(FALSE) ELSE Num(0)

\* the loop of evaluate_named over name_to_param.items()
RECURSIVE named_loop(_, _, _, _)
named_loop(items, name_to_input_type, answers, data) ==
    IF items = <<>> THEN data
    ELSE LET name == Head(items).name
             param == Head(items).param
         IN  named_loop(Tail(items), name_to_input_type, answers,
                 Put(data, param,
                     IF InDict(answers, name) THEN answers[name]
                     ELSE skipped_value(name_to_input_type, name)))

\* the building record evaluate_named passes to the pipeline
named_record(std, answers) ==
    LET maps == build_name_param_maps(std)
    IN  named_loop(maps.name_to_param, maps.name_to_input_type, answers,
            [k \in Keys |->
                 IF k = "building_type"
                 THEN DictGet(answers, "building_type", Commercial)
                 ELSE IF k = "operational_years"
                 THEN DictGet(answers, "operational_years", Num(2))
                 ELSE Absent])

\* a score result with credit_scores renamed to credit_details
renamed(result) ==
    IF result.eligible
    THEN [eligible |-> TRUE, green_score |-> result.green_score,
          category_scores |-> result.category_scores,
          certification_level |-> result.certification_level,
          credit_details |-> result.credit_scores]
    ELSE result

\* what the name-based entry points return for a built record: the
\* pipeline's result, or {"error": ...} for any exception
entry_result(std, data) ==
    Only({[raised |-> FALSE, building_data |-> data, evals |-> r.evals,
           result |-> IF r.raised THEN [error |-> TRUE]
                      ELSE renamed(r.result)] :
          r \in {evaluate_enhanced(std, data)}})

\* an entry point that turns a request with a name it does not know away
evaluate_named_strict(std, answers) ==
    IF \E k \in DOMAIN answers :
           /\ answers[k] # Absent
           /\ k \notin {"building_type", "operational_years"}
           /\ \A i \in DOMAIN build_name_param_maps(std).name_to_param :
                  build_name_param_maps(std).name_to_param[i].name # k
    THEN [raised |-> FALSE, building_data |-> named_record(std, answers),
          evals |-> 0, result |-> [error |-> TRUE]]
    ELSE entry_result(std, named_record(std, answers))

evaluate_named(std, answers) ==
    entry_result(std, named_record(std, answers))

\* param_mapping of calculate_green_score: the standardized name of a param
param_mapping(name) == IF name = "n1" THEN "p1" ELSE "p2"

MappedNames == {"n1", "n2"}

\* the building record calculate_green_score passes to the pipeline
green_score_record(data) ==
    [k \in Keys |->
         IF k = "building_type"
         THEN DictGet(data, "building_type", Commercial)
         ELSE IF k = "operational_years"
         THEN DictGet(data, "operational_years", Num(2))
         ELSE IF \E name \in MappedNames :
                     param_mapping(name) = k /\ InDict(data, name)
         THEN data[CHOOSE name \in MappedNames : param_mapping(name) = k]
         ELSE Absent]

calculate_green_score(std, data) ==
    entry_result(std, green_score_record(data))

---------------------------------------------------------------------------
(* Inputs: records, credits and rubrics within the bounds *)

\* the human-readable name of the input read under a param
NameOf(p) == IF p = "p1" THEN "n1" ELSE "n2"

Numbers == {Num(i) : i \in 0..MaxVal}
ParamVals == {Absent, Null, Text, Bool(FALSE), Bool(TRUE)} \cup Numbers

SeqsUpTo(S, n) == UNION {[1..m -> S] : m \in 0..n}

\* records of an eligible building (the defaults of calculate_green_score)
ParamRecords ==
    {[k \in Keys |->
         IF k = "building_type" THEN Commercial
         ELSE IF k = "operational_years" THEN Num(2)
         ELSE f[k]] : f \in [Params -> ParamVals]}

\* records that fill the eligibility fields only
EligibilityRecords ==
    {[k \in Keys |->
         IF k = "building_type" THEN bt
         ELSE IF k = "operational_years" THEN yr
         ELSE Absent] :
         bt \in {Absent, Commercial, Residential},
         yr \in {Absent, Null, Text} \cup Numbers}

\* records that give every param the same value
UniformRecords == {pr \in ParamRecords : pr["p1"] = pr["p2"]}

\* whole records: every eligibility filling with the uniform param
\* fillings, and every param filling of the eligible default
Records ==
    ParamRecords \cup
    {[k \in Keys |-> IF k \in Params THEN pr[k] ELSE er[k]] :
         er \in EligibilityRecords, pr \in UniformRecords}

\* a credit max below and above what single conditions are worth
CreditMaxes == {1, MaxPoints + 1}

Thresholds == {0, 1, MaxVal}
PointVals == {1, MaxPoints}

Credit(sub_id, max_points, calculation) ==
    [sub_id |-> sub_id, max_points |-> max_points,
     calculation |-> calculation]

CondSpace ==
    {[name |-> NameOf(p), param |-> p, threshold |-> t, points |-> k] :
         p \in Params, t \in Thresholds, k \in PointVals}

ConditionalSumCredits ==
    {Credit("c1", m, [type |-> "conditional_sum", conditions |-> cs]) :
         cs \in SeqsUpTo(CondSpace, MaxLen), m \in CreditMaxes}

EitherOrCondSpace ==
    {[name |-> "n1", param |-> "p1", threshold |-> Num(0), value |-> Absent],
     [name |-> "n1", param |-> "p1", threshold |-> Num(MaxVal),
      value |-> Absent],
     [name |-> "n2", param |-> "p2", threshold |-> Absent,
      value |-> Bool(TRUE)]}

OptionSpace ==
    {[points |-> g, conditions |-> cs] :
         g \in {Absent, Num(MaxPoints)},
         cs \in SeqsUpTo(EitherOrCondSpace, MaxLen)}

\* a group whose "points" is 0: holding or not, it adds nothing
ZeroPointOptions ==
    {[points |-> Num(0), conditions |-> cs] :
         cs \in SeqsUpTo(EitherOrCondSpace, MaxLen)}

\* a credit of no group, of one group, or of a pair of groups
OptionLists ==
    {<<>>} \cup {<<a>> : a \in OptionSpace \cup ZeroPointOptions}
           \cup {<<a, b>> : a \in OptionSpace, b \in OptionSpace}

EitherOrCredits ==
    {Credit("c1", m, [type |-> "either_or", options |-> os]) :
         os \in OptionLists, m \in CreditMaxes}

RangeBounds == {Null, Num(1), Num(MaxVal)}

RangeSpace ==
    {[min |-> lo, max |-> hi, points |-> k] :
         lo \in RangeBounds, hi \in RangeBounds, k \in PointVals}

RangeBasedCredits ==
    {Credit("c1", m, [type |-> "range_based", name |-> NameOf(p),
                      param |-> p, ranges |-> rs]) :
         p \in Params, rs \in SeqsUpTo(RangeSpace, MaxLen), m \in CreditMaxes}

\* the ranges of a part: "at least 1" and "at most 1" overlap at 1
AtLeastOne == [min |-> Num(1), max |-> Null, points |-> 1]
AtMostOne == [min |-> Null, max |-> Num(1), points |-> MaxPoints]

PartRangeLists ==
    {<<AtLeastOne>>, <<AtLeastOne, AtMostOne>>, <<AtMostOne, AtLeastOne>>}

PartSpace ==
    {[name |-> NameOf(p), param |-> p, ranges |-> rs] :
         p \in Params, rs \in PartRangeLists}

CompositeSumCredits ==
    {Credit("c1", m, [type |-> "composite_sum", parts |-> ps]) :
         ps \in SeqsUpTo(PartSpace, MaxLen), m \in CreditMaxes}

RequirementSpace ==
    {NoRequirement} \cup
    {[present |-> TRUE, param |-> p, min_required |-> r] :
         p \in Params, r \in {Absent, Num(1), Num(MaxVal)}}

SingleConditionCredits ==
    {Credit("c1", m, [type |-> "single_condition", condition |-> c,
                      additional_requirements |-> a]) :
         c \in CondSpace, a \in RequirementSpace, m \in CreditMaxes}

\* a calculation type outside the five kinds
UnknownKindCredits ==
    {Credit("c1", m, [type |-> "weighted_average"]) : m \in CreditMaxes}

CreditSpace ==
    ConditionalSumCredits \cup EitherOrCredits \cup RangeBasedCredits
        \cup CompositeSumCredits \cup SingleConditionCredits
        \cup UnknownKindCredits

\* the credits of the rubrics: one of each kind and one of no known kind;
\* sub ids are scoped to a category, so they repeat across credits
K1 ==
    Credit("s1", 2, [type |-> "conditional_sum", conditions |->
        <<[name |-> "n1", param |-> "p1", threshold |-> 1, points |-> 2],
          [name |-> "n2", param |-> "p2", threshold |-> 2, points |-> 1]>>])

K2 ==
    Credit("s2", 1, [type |-> "either_or", options |->
        <<[points |-> Absent, conditions |->
            <<[name |-> "n1", param |-> "p1", threshold |-> Num(1),
               value |-> Absent],
              [name |-> "n2", param |-> "p2", threshold |-> Absent,
               value |-> Bool(TRUE)]>>]>>])

K3 ==
    Credit("s1", 2, [type |-> "range_based", name |-> "n1", param |-> "p1",
        ranges |-> <<[min |-> Num(0), max |-> Num(1), points |-> 1],
                     [min |-> Num(1), max |-> Null, points |-> 2]>>])

K4 ==
    Credit("s2", 2, [type |-> "composite_sum", parts |->
        <<[name |-> "n1", param |-> "p1", ranges |->
              <<[min |-> Num(1), max |-> Null, points |-> 1]>>],
          [name |-> "n2", param |-> "p2", ranges |->
              <<[min |-> Num(2), max |-> Null, points |-> 2]>>]>>])

K5 ==
    Credit("s1", 2, [type |-> "single_condition",
        condition |-> [name |-> "n1", param |-> "p1", threshold |-> 1,
                       points |-> 2],
        additional_requirements |->
            [present |-> TRUE, param |-> "p2", min_required |-> Num(1)]])

K6 == Credit("s2", 2, [type |-> "weighted_average"])

CreditLists == {<<K1, K2>>, <<K3, K5>>, <<K4, K6>>}

CatIds == {"A", "B"}

CategorySpace ==
    {[id |-> i, max_points |-> m, credits |-> cl] :
         i \in CatIds, m \in {MaxPoints}, cl \in CreditLists}

\* the eligibility criteria of the rubric
Criteria ==
    [building_type |-> {Commercial, Institutional}, operational_years |-> 1]

Standard(categories, levels) ==
    [eligibility_criteria |-> Criteria, categories |-> categories,
     scoring_info |-> [certification_levels |-> levels]]

Level(name, min_points, max_points) ==
    [name |-> name, min_points |-> min_points, max_points |-> max_points]

\* levels that tile the scores from 1 up, and levels that overlap
LevelLists ==
    {<<Level("Certified", 1, 2), Level("Gold", 3, MaxLen * MaxPoints)>>,
     <<Level("Silver", 0, 3), Level("Gold", 2, 4)>>}

Rubrics ==
    {Standard(cats, levels) :
         cats \in SeqsUpTo(CategorySpace, MaxLen), levels \in LevelLists}

LevelBounds == {0, 1, MaxVal, MaxVal + 1}

LevelSpace ==
    {Level(n, a, b) : n \in {"Silver", "Gold"},
                      a \in LevelBounds, b \in LevelBounds}

LevelRubrics ==
    {Standard(<<>>, levels) : levels \in SeqsUpTo(LevelSpace, MaxLen)}

ScoreSpace == 0..(MaxLen * MaxPoints)

\* the fields of a question the index reads: its name, its param and its
\* declared input kind ("" where the rubric leaves one out).  Two names
\* fill p1, one name is declared under two params, one question has no name.
QuestionSpace ==
    {[name |-> "n1", param |-> "p1", input_type |-> ""],
     [name |-> "n2", param |-> "p2", input_type |-> "boolean"],
     [name |-> "n2", param |-> "p1", input_type |-> "number"],
     [name |-> "", param |-> "p2", input_type |-> ""]}

NumberQuestion == [name |-> "n1", param |-> "p1", input_type |-> ""]
BooleanQuestion == [name |-> "n2", param |-> "p2", input_type |-> "boolean"]

NamedCondition(q) ==
    [name |-> q.name, param |-> q.param, input_type |-> q.input_type,
     threshold |-> 1, points |-> 1]

NamedOptionCondition(q) ==
    [name |-> q.name, param |-> q.param, input_type |-> q.input_type,
     threshold |-> Absent, value |-> Bool(TRUE)]

NamedPart(q) ==
    [name |-> q.name, param |-> q.param, input_type |-> q.input_type,
     ranges |-> <<AtLeastOne>>]

NamedRequirement(q) ==
    [present |-> TRUE, name |-> q.name, param |-> q.param,
     input_type |-> q.input_type, min_required |-> Num(1)]

\* credits of every kind whose questions carry the fields of the index
NamedCreditSpace ==
    {Credit("c1", MaxPoints, [type |-> "conditional_sum",
                              conditions |-> <<NamedCondition(q)>>]) :
         q \in QuestionSpace}
    \cup
    {Credit("c2", MaxPoints, [type |-> "either_or", options |->
         <<[points |-> Absent,
            conditions |-> <<NamedOptionCondition(BooleanQuestion)>>]>>]),
     Credit("c3", MaxPoints, [type |-> "range_based", name |-> "n1",
                              param |-> "p1", input_type |-> "",
                              ranges |-> <<AtLeastOne>>]),
     Credit("c4", MaxPoints, [type |-> "composite_sum", parts |->
         <<NamedPart(NumberQuestion), NamedPart(BooleanQuestion)>>])}
    \cup
    {Credit("c5", MaxPoints, [type |-> "single_condition",
                              condition |-> NamedCondition(NumberQuestion),
                              additional_requirements |-> a]) :
         a \in {NoRequirement, NamedRequirement(BooleanQuestion)}}

NamedCategory(id, credits) ==
    [id |-> id, max_points |-> MaxLen * MaxPoints, credits |-> credits]

\* the credits in one category, or split over two
NamedCategoryLists ==
    {<<NamedCategory("A", cl)>> : cl \in SeqsUpTo(NamedCreditSpace, MaxLen)}
    \cup
    {<<NamedCategory("A", <<Head(cl)>>), NamedCategory("B", Tail(cl))>> :
         cl \in SeqsUpTo(NamedCreditSpace, MaxLen) \ {<<>>}}

NamedRubrics ==
    {Standard(cats, <<Level("Certified", 1, MaxLen * MaxPoints)>>) :
         cats \in NamedCategoryLists}

\* a name-based request: the eligibility fields, the names n1 and n2, and
\* "zz", a key no rubric knows
Requests ==
    {[building_type |-> bt, operational_years |-> yr, n1 |-> a, n2 |-> b,
      zz |-> z] :
         bt \in {Absent, Residential}, yr \in {Absent, Num(0)},
         a \in {Absent, Null, Text, Num(MaxVal)},
         b \in {Absent, Bool(TRUE), Num(1)},
         z \in {Absent, Num(MaxVal)}}

\* building records that carry the unknown key as well
WideRecords ==
    {[k \in Keys \cup {"zz"} |->
         IF k = "building_type" THEN bt
         ELSE IF k = "operational_years" THEN Num(2)
         ELSE IF k = "p1" THEN a
         ELSE IF k = "p2" THEN b
         ELSE z] :
         bt \in {Commercial, Residential},
         a \in {Absent, Text, Num(MaxVal)},
         b \in {Absent, Bool(TRUE)},
         z \in {Absent, Num(MaxVal)}}

---------------------------------------------------------------------------
(* State machine: a calculator is constructed, then its methods are called *)

NoRecord == [k \in Keys |-> Absent]
NoCredit == Credit("", 0, [type |-> ""])
NoReturn == [raised |-> FALSE]
NoAnswers == [k \in {} |-> Absent]

\* GreenScoreCalculator(standard_json), nothing called yet
Constructed(rubrics) ==
    /\ standard \in rubrics
    /\ op = "idle"
    /\ building_data = NoRecord
    /\ credit = NoCredit
    /\ total_score = 0
    /\ ret = NoReturn
    /\ evals = 0
    /\ answers_by_name = NoAnswers

Init == Constructed(Rubrics)

CheckEligibility ==
    /\ op = "idle"
    /\ \E data \in EligibilityRecords :
        /\ op' = "check_eligibility"
        /\ building_data' = data
        /\ ret' = check_eligibility(standard, data)
        /\ evals' = 0
        /\ UNCHANGED <<standard, credit, total_score, answers_by_name>>

\* calculate_credit_points on the credit at hand
CalculateCreditPoints ==
    /\ op = "idle"
    /\ \E data \in ParamRecords :
        /\ op' = "calculate_credit_points"
        /\ building_data' = data
        /\ ret' = calculate_credit_points(credit, data)
        /\ evals' = 1
        /\ UNCHANGED <<standard, credit, total_score, answers_by_name>>

\* calculate_credit_points on a credit of the rubric
CalculateRubricCredit ==
    /\ op = "idle"
    /\ \E i \in DOMAIN standard.categories :
        \E j \in DOMAIN standard.categories[i].credits :
            \E data \in ParamRecords :
                /\ op' = "calculate_credit_points"
                /\ credit' = standard.categories[i].credits[j]
                /\ building_data' = data
                /\ ret' = calculate_credit_points(credit', data)
                /\ evals' = 1
                /\ UNCHANGED <<standard, total_score, answers_by_name>>

\* an aggregator that writes each clamped score back into the rubric as
\* the category's max_points
CalculateTotalScoreInPlace ==
    /\ op = "idle"
    /\ \E data \in ParamRecords :
        \E r \in {calculate_total_score(standard, data)} :
            /\ op' = "calculate_total_score"
            /\ building_data' = data
            /\ ret' = [raised |-> r.raised, total_score |-> r.total_score,
                       category_scores |-> r.category_scores,
                       credit_scores |-> r.credit_scores]
            /\ evals' = r.evals
            /\ standard' =
                   IF r.raised THEN standard
                   ELSE [standard EXCEPT !.categories =
                            [i \in DOMAIN standard.categories |->
                                [standard.categories[i] EXCEPT
                                    !.max_points =
                                        r.category_scores[
                                            standard.categories[i].id]]]]
            /\ UNCHANGED <<credit, total_score, answers_by_name>>

CalculateTotalScore ==
    /\ op = "idle"
    /\ \E data \in ParamRecords :
        \E r \in {calculate_total_score(standard, data)} :
            /\ op' = "calculate_total_score"
            /\ building_data' = data
            /\ ret' = [raised |-> r.raised, total_score |-> r.total_score,
                       category_scores |-> r.category_scores,
                       credit_scores |-> r.credit_scores]
            /\ evals' = r.evals
            /\ UNCHANGED <<standard, credit, total_score, answers_by_name>>

GetCertificationLevel ==
    /\ op = "idle"
    /\ \E score \in ScoreSpace :
        /\ op' = "get_certification_level"
        /\ total_score' = score
        /\ ret' = [raised |-> FALSE,
                   level |-> get_certification_level(standard, score)]
        /\ evals' = 0
        /\ UNCHANGED <<standard, credit, building_data, answers_by_name>>

EvaluateEnhanced ==
    /\ op = "idle"
    /\ \E data \in Records :
        \E r \in {evaluate_enhanced(standard, data)} :
            /\ op' = "evaluate_enhanced"
            /\ building_data' = data
            /\ ret' = [raised |-> r.raised, result |-> r.result]
            /\ evals' = r.evals
            /\ UNCHANGED <<standard, credit, total_score, answers_by_name>>

\* the caller takes the result; the record of the request is dropped
Discard ==
    /\ op # "idle"
    /\ op' = "idle"
    /\ building_data' = NoRecord
    /\ credit' = NoCredit
    /\ total_score' = 0
    /\ ret' = NoReturn
    /\ evals' = 0
    /\ answers_by_name' = NoAnswers
    /\ UNCHANGED standard

Next ==
    \/ CheckEligibility
    \/ CalculateRubricCredit
    \/ CalculateTotalScore
    \/ GetCertificationLevel
    \/ EvaluateEnhanced
    \/ Discard

Spec == Init /\ [][Next]_vars

\* the credit evaluator alone, over every credit within the bounds
CreditAtHand(credits) ==
    /\ standard = Standard(<<>>, <<>>)
    /\ op = "idle"
    /\ building_data = NoRecord
    /\ credit \in credits
    /\ total_score = 0
    /\ ret = NoReturn
    /\ evals = 0
    /\ answers_by_name = NoAnswers

InitCredit == CreditAtHand(CreditSpace)

NextCredit == CalculateCreditPoints

SpecCredit == InitCredit /\ [][NextCredit]_vars

\* the credit evaluator on the credits of one calculation kind
InitConditionalSum == CreditAtHand(ConditionalSumCredits)
SpecConditionalSum == InitConditionalSum /\ [][NextCredit]_vars

InitEitherOr == CreditAtHand(EitherOrCredits)
SpecEitherOr == InitEitherOr /\ [][NextCredit]_vars

InitRanges == CreditAtHand(RangeBasedCredits \cup CompositeSumCredits)
SpecRanges == InitRanges /\ [][NextCredit]_vars

InitSingleCondition == CreditAtHand(SingleConditionCredits)
SpecSingleCondition == InitSingleCondition /\ [][NextCredit]_vars

\* the certification resolver alone, over every level list within the bounds
InitCertification == Constructed(LevelRubrics)
NextCertification == GetCertificationLevel
SpecCertification == InitCertification /\ [][NextCertification]_vars

\* the credits of the rubric, one call each, in any order
BeginEvaluation ==
    /\ op = "idle"
    /\ \E data \in UniformRecords :
        /\ op' = "evaluating"
        /\ building_data' = data
        /\ ret' = [raised |-> FALSE, results |-> EmptyDict]
        /\ evals' = 0
        /\ UNCHANGED <<standard, credit, total_score, answers_by_name>>

EvaluateCredit ==
    /\ op = "evaluating"
    /\ \E pos \in Positions(standard) \ DOMAIN ret.results :
        /\ credit' = standard.categories[pos[1]].credits[pos[2]]
        /\ ret' = [ret EXCEPT !.results =
                      Put(@, pos, calculate_credit_points(credit',
                                                          building_data))]
        /\ evals' = evals + 1
        /\ UNCHANGED <<standard, op, building_data, total_score,
                       answers_by_name>>

Aggregate ==
    /\ op = "evaluating"
    /\ DOMAIN ret.results = Positions(standard)
    /\ op' = "aggregated"
    /\ ret' = aggregate(standard, ret.results)
    /\ UNCHANGED <<standard, building_data, credit, total_score, evals,
                   answers_by_name>>

InitAnyOrder == Constructed(Rubrics)

NextAnyOrder ==
    \/ BeginEvaluation
    \/ EvaluateCredit
    \/ Aggregate
    \/ Discard

SpecAnyOrder == InitAnyOrder /\ [][NextAnyOrder]_vars

\* the name-based entry points, on rubrics whose questions are indexed
EvaluateNamed ==
    /\ op = "idle"
    /\ \E answers \in Requests :
        \E r \in {evaluate_named(standard, answers)} :
            /\ op' = "evaluate_named"
            /\ answers_by_name' = answers
            /\ building_data' = r.building_data
            /\ ret' = [raised |-> r.raised, result |-> r.result]
            /\ evals' = r.evals
            /\ UNCHANGED <<standard, credit, total_score>>

CalculateGreenScore ==
    /\ op = "idle"
    /\ \E data \in Requests :
        \E r \in {calculate_green_score(standard, data)} :
            /\ op' = "calculate_green_score"
            /\ answers_by_name' = data
            /\ building_data' = r.building_data
            /\ ret' = [raised |-> r.raised, result |-> r.result]
            /\ evals' = r.evals
            /\ UNCHANGED <<standard, credit, total_score>>

\* evaluate_enhanced on a record that carries a key the rubric does not know
EvaluateEnhancedRequest ==
    /\ op = "idle"
    /\ \E data \in WideRecords :
        \E r \in {evaluate_enhanced(standard, data)} :
            /\ op' = "evaluate_enhanced"
            /\ building_data' = data
            /\ ret' = [raised |-> r.raised, result |-> r.result]
            /\ evals' = r.evals
            /\ UNCHANGED <<standard, credit, total_score, answers_by_name>>

InitNamed == Constructed(NamedRubrics)

NextNamed ==
    \/ EvaluateNamed
    \/ CalculateGreenScore
    \/ EvaluateEnhancedRequest
    \/ Discard

SpecNamed == InitNamed /\ [][NextNamed]_vars

---------------------------------------------------------------------------
(* Properties of the evaluator *)

ScoreFields ==
    {"green_score", "category_scores", "credit_scores", "certification_level"}

\* C1: evaluate_enhanced runs the eligibility gate first.  A record that
\* fails the gate gets exactly {eligible: false, reason} with a non-empty
\* reason, none of the four score fields, and no credit is evaluated; a
\* record that passes it gets eligible = true and all four score fields
\* (unless a credit raised on an ill-typed value, which leaves no result),
\* and a gate that raised leaves no result and no credit evaluated.
C1_GateFirst ==
    op = "evaluate_enhanced" =>
        LET e == check_eligibility(standard, building_data)
        IN  /\ e.raised => ret.raised /\ evals = 0
            /\ ~e.raised /\ ~e.eligible =>
                   /\ ~ret.raised
                   /\ ret.result.eligible = FALSE
                   /\ "reason" \in DOMAIN ret.result
                   /\ ret.result.reason \notin {"", "Eligible"}
                   /\ DOMAIN ret.result \cap ScoreFields = {}
                   /\ evals = 0
            /\ ~e.raised /\ e.eligible /\ ~ret.raised =>
                   /\ ret.result.eligible = TRUE
                   /\ ScoreFields \subseteq DOMAIN ret.result

\* C1 witness: a record with filled params is turned away by the gate of a
\* rubric that has credits to score
C1_Witness ==
    /\ op = "evaluate_enhanced"
    /\ ~ret.raised
    /\ ret.result.eligible = FALSE
    /\ Len(standard.categories) = MaxLen
    /\ building_data["p1"] = Num(MaxVal)
    /\ building_data["building_type"] = Residential

\* the points of a list of credits, summed
RECURSIVE SumOfCredits(_, _)
SumOfCredits(credits, data) ==
    IF credits = <<>> THEN 0
    ELSE calculate_credit_points(Head(credits), data).points
             + SumOfCredits(Tail(credits), data)

\* min(sum of the category's credit points, the category's max)
ClampedScore(category, data) ==
    LET sum == SumOfCredits(category.credits, data)
    IN  IF sum <= category.max_points THEN sum ELSE category.max_points

RECURSIVE SumOfClamped(_, _)
SumOfClamped(categories, data) ==
    IF categories = <<>> THEN 0
    ELSE ClampedScore(Head(categories), data)
             + SumOfClamped(Tail(categories), data)

\* category i is the one whose score the returned dict holds under its id
\* (the last one carrying the id, should ids repeat)
Reported(categories, i) ==
    \A j \in DOMAIN categories : j > i => categories[j].id # categories[i].id

\* C2: calculate_total_score returns for each category the score
\* min(sum of the points of its credits, its max_points), hence at most
\* its max, and a total equal to the sum of the clamped category scores.
C2_CategoryClamp ==
    op = "calculate_total_score" /\ ~ret.raised =>
        LET cats == standard.categories
        IN  /\ DOMAIN ret.category_scores = {cats[i].id : i \in DOMAIN cats}
            /\ \A i \in DOMAIN cats :
                   Reported(cats, i) =>
                       /\ ret.category_scores[cats[i].id]
                              = ClampedScore(cats[i], building_data)
                       /\ ret.category_scores[cats[i].id]
                              <= cats[i].max_points
            /\ ret.total_score = SumOfClamped(cats, building_data)

\* C2 witness: a category whose credits sum above its max is clamped
C2_Witness ==
    /\ op = "calculate_total_score"
    /\ ~ret.raised
    /\ \E i \in DOMAIN standard.categories :
           /\ Reported(standard.categories, i)
           /\ SumOfCredits(standard.categories[i].credits, building_data)
                  > standard.categories[i].max_points
           /\ ret.category_scores[standard.categories[i].id]
                  = standard.categories[i].max_points
    /\ ret.total_score > 0

Called == op = "calculate_credit_points"

KnownKinds ==
    {"conditional_sum", "either_or", "range_based", "composite_sum",
     "single_condition"}

\* C3: the points returned by calculate_credit_points never exceed the
\* credit's max_points, whatever the calculation kind.
C3_PointsClamped ==
    Called /\ ~ret.raised /\ credit.calculation.type \in KnownKinds =>
        ret.points <= credit.max_points

\* C4: a record in which a param is absent or null yields the same points
\* and evidence (or the same error) as the record with that param set to 0
\* and as the record with that param set to false.
C4_MissingAsZero ==
    Called =>
        \A p \in Params :
            building_data[p] \in {Absent, Null} =>
                /\ ret = calculate_credit_points(credit,
                             [building_data EXCEPT ![p] = Num(0)])
                /\ ret = calculate_credit_points(credit,
                             [building_data EXCEPT ![p] = Bool(FALSE)])

\* whether a rubric holds a credit of no recognized calculation kind
HasUnknownKind(std) ==
    \E i \in DOMAIN std.categories :
        \E j \in DOMAIN std.categories[i].credits :
            std.categories[i].credits[j].calculation.type \notin KnownKinds

\* C5: a credit of an unrecognized calculation kind ends in an error, never
\* in 0 points, and no score result comes out of the pipeline for a rubric
\* that holds such a credit.
C5_UnknownKindFails ==
    /\ Called /\ credit.calculation.type \notin KnownKinds => ret.raised
    /\ op \in {"calculate_total_score", "evaluate_enhanced"}
           /\ HasUnknownKind(standard) /\ ~ret.raised =>
           /\ op = "evaluate_enhanced"
           /\ ret.result.eligible = FALSE

\* the value of a param, a missing one read as 0
ValueOf(data, p) == IF data[p] \in {Absent, Null} THEN Num(0) ELSE data[p]

\* (no min or value >= min) and (no max or value <= max)
InRange(r, v) ==
    /\ r.min = Null \/ v.n >= r.min.n
    /\ r.max = Null \/ v.n <= r.max.n

\* the points of the first range, in declaration order, that holds v
FirstMatch(ranges, v) ==
    IF \E i \in DOMAIN ranges : InRange(ranges[i], v)
    THEN ranges[CHOOSE i \in DOMAIN ranges :
                    /\ InRange(ranges[i], v)
                    /\ \A j \in DOMAIN ranges :
                           j < i => ~InRange(ranges[j], v)].points
    ELSE 0

PartPoints(part, data) == FirstMatch(part.ranges, ValueOf(data, part.param))

PartMatches(part, data) ==
    \E i \in DOMAIN part.ranges :
        InRange(part.ranges[i], ValueOf(data, part.param))

RECURSIVE SumOfParts(_, _)
SumOfParts(parts, data) ==
    IF parts = <<>> THEN 0
    ELSE PartPoints(Head(parts), data) + SumOfParts(Tail(parts), data)

\* the outcomes of the parts that match, each with its own points
RECURSIVE PartOutcomes(_, _)
PartOutcomes(parts, data) ==
    IF parts = <<>> THEN <<>>
    ELSE (IF PartMatches(Head(parts), data)
          THEN <<Outcome(Head(parts).name, TRUE,
                         PartPoints(Head(parts), data))>>
          ELSE <<>>) \o PartOutcomes(Tail(parts), data)

\* C6: a range_based credit, and each part of a composite_sum credit on its
\* own, takes the points of the first range in declaration order that
\* holds the value (bounds inclusive, a missing bound open, a missing value
\* read as 0), and 0 when no range holds it.
C6_FirstRangeWins ==
    Called /\ ~ret.raised =>
        LET calc == credit.calculation
        IN  /\ calc.type = "range_based" =>
                   ret.points =
                       FirstMatch(calc.ranges, ValueOf(building_data,
                                                       calc.param))
            /\ calc.type = "composite_sum" =>
                   /\ ret.points =
                          Min(SumOfParts(calc.parts, building_data),
                              credit.max_points)
                   /\ ret.conditions = PartOutcomes(calc.parts, building_data)

\* C6 witness: two ranges hold the value, the later one worth more points,
\* and the credit got the points of the earlier one
C6_Witness ==
    /\ Called
    /\ ~ret.raised
    /\ credit.calculation.type = "range_based"
    /\ Len(credit.calculation.ranges) = 2
    /\ LET rs == credit.calculation.ranges
           v == ValueOf(building_data, credit.calculation.param)
       IN  /\ InRange(rs[1], v) /\ InRange(rs[2], v)
           /\ rs[1].min # Null /\ rs[1].max # Null
           /\ rs[2].max = Null
           /\ rs[1].points < rs[2].points
           /\ ret.points = rs[1].points

\* whether a condition of an option group holds: its threshold is met
\* (>=) or its value is matched exactly
ConditionHolds(condition, data) ==
    LET v == Get(data, condition.param)
    IN  \/ /\ condition.threshold # Absent
           /\ IsNumeric(v)
           /\ v.n >= condition.threshold.n
        \/ /\ condition.value # Absent
           /\ PyEq(v, condition.value)

GroupHolds(option, data) ==
    \E i \in DOMAIN option.conditions :
        ConditionHolds(option.conditions[i], data)

\* the point value of a group, once, if any of its conditions holds
GroupContribution(option, data) ==
    IF GroupHolds(option, data)
    THEN (IF option.points = Absent THEN 1 ELSE option.points.n)
    ELSE 0

RECURSIVE SumOfGroups(_, _)
SumOfGroups(options, data) ==
    IF options = <<>> THEN 0
    ELSE GroupContribution(Head(options), data)
             + SumOfGroups(Tail(options), data)

\* C7: in an either_or credit each option group contributes its point value
\* exactly once if at least one of its conditions holds and 0 otherwise,
\* however many of them hold; the credit's points are the sum of the group
\* contributions clamped to the credit's max, and the evidence holds one
\* satisfied outcome per group that holds.
C7_GroupOnce ==
    Called /\ ~ret.raised /\ credit.calculation.type = "either_or" =>
        LET options == credit.calculation.options
        IN  /\ ret.points =
                   Min(SumOfGroups(options, building_data), credit.max_points)
            /\ Cardinality({k \in DOMAIN ret.conditions :
                               ret.conditions[k].result})
                   = Cardinality({i \in DOMAIN options :
                                     GroupHolds(options[i], building_data)})

\* C7 witness: both conditions of a group hold and the group's points were
\* awarded once
C7_Witness ==
    /\ Called
    /\ ~ret.raised
    /\ credit.calculation.type = "either_or"
    /\ Len(credit.calculation.options) = 1
    /\ credit.max_points > MaxPoints
    /\ LET option == credit.calculation.options[1]
       IN  /\ Len(option.conditions) = 2
           /\ option.conditions[1] # option.conditions[2]
           /\ ConditionHolds(option.conditions[1], building_data)
           /\ ConditionHolds(option.conditions[2], building_data)
           /\ option.points = Num(MaxPoints)
           /\ ret.points = MaxPoints

\* C8: a single_condition credit awards its point value if and only if the
\* primary value meets the threshold and, where the credit has one, the
\* value of the additional requirement meets min_required (a missing
\* value read as 0, a missing min_required as 0); otherwise 0.
C8_BothRequired ==
    Called /\ ~ret.raised /\ credit.calculation.type = "single_condition" =>
        LET cond == credit.calculation.condition
            req == credit.calculation.additional_requirements
            primary == ValueOf(building_data, cond.param).n >= cond.threshold
            secondary ==
                ValueOf(building_data, req.param).n >=
                    (IF req.min_required = Absent THEN 0
                     ELSE req.min_required.n)
        IN  ret.points =
                IF primary /\ (req.present => secondary) THEN cond.points
                ELSE 0

\* C8 witness: the primary threshold is met, the additional requirement is
\* not, and the credit got 0 points
C8_Witness ==
    /\ Called
    /\ ~ret.raised
    /\ credit.calculation.type = "single_condition"
    /\ credit.calculation.additional_requirements.present
    /\ credit.calculation.additional_requirements.min_required = Num(MaxVal)
    /\ LET cond == credit.calculation.condition
           req == credit.calculation.additional_requirements
       IN  /\ cond.param # req.param
           /\ cond.threshold > 0
           /\ ValueOf(building_data, cond.param).n >= cond.threshold
           /\ building_data[req.param] = Num(MaxVal - 1)
    /\ ret.points = 0

\* whether a condition of a conditional_sum credit is met
Met(cond, data) == ValueOf(data, cond.param).n >= cond.threshold

RECURSIVE SumOfMet(_, _)
SumOfMet(conds, data) ==
    IF conds = <<>> THEN 0
    ELSE (IF Met(Head(conds), data) THEN Head(conds).points ELSE 0)
             + SumOfMet(Tail(conds), data)

\* C9: a conditional_sum credit evaluates every condition and emits exactly
\* one outcome per condition, in declaration order: satisfied with its
\* points when the value (default 0) >= threshold, else unsatisfied with 0;
\* its points are min(sum of the satisfied conditions' points, credit max).
C9_EveryCondition ==
    Called /\ ~ret.raised /\ credit.calculation.type = "conditional_sum" =>
        LET conds == credit.calculation.conditions
        IN  /\ Len(ret.conditions) = Len(conds)
            /\ \A i \in DOMAIN conds :
                   ret.conditions[i] =
                       Outcome(conds[i].name, Met(conds[i], building_data),
                               IF Met(conds[i], building_data)
                               THEN conds[i].points ELSE 0)
            /\ ret.points =
                   Min(SumOfMet(conds, building_data), credit.max_points)

\* C9 witness: the first condition is not met, the second one is, and both
\* left their outcome
C9_Witness ==
    /\ Called
    /\ ~ret.raised
    /\ credit.calculation.type = "conditional_sum"
    /\ Len(credit.calculation.conditions) = 2
    /\ Len(ret.conditions) = 2
    /\ ~ret.conditions[1].result
    /\ ret.conditions[2].result
    /\ ret.points = credit.calculation.conditions[2].points

\* the name of the first level, in rubric order, whose inclusive range
\* holds the score, or the sentinel
FirstLevel(levels, score) ==
    LET holds(i) == levels[i].min_points <= score
                        /\ score <= levels[i].max_points
    IN  IF \E i \in DOMAIN levels : holds(i)
        THEN levels[CHOOSE i \in DOMAIN levels :
                        holds(i) /\ \A j \in DOMAIN levels :
                                        j < i => ~holds(j)].name
        ELSE "No Certification"

\* C10: get_certification_level never fails and returns the name of the
\* first level in rubric order whose inclusive [min_points, max_points]
\* holds the score, or "No Certification" when no level holds it.
C10_FirstLevel ==
    op = "get_certification_level" =>
        /\ ~ret.raised
        /\ ret.level =
               FirstLevel(standard.scoring_info.certification_levels,
                          total_score)

\* C10 witness: the score sits on the upper bound of the first level and
\* inside the second, and the first level was returned
C10_Witness ==
    /\ op = "get_certification_level"
    /\ Len(standard.scoring_info.certification_levels) = 2
    /\ LET levels == standard.scoring_info.certification_levels
       IN  /\ levels[1].name # levels[2].name
           /\ levels[1].max_points = total_score
           /\ levels[1].min_points < total_score
           /\ levels[2].min_points < total_score
           /\ levels[2].max_points > total_score
           /\ ret.level = levels[1].name

\* the request that answers one name with v and nothing else
OnlyAnswer(answers, name) ==
    /\ InDict(answers, name)
    /\ \A k \in DOMAIN answers : k # name => answers[k] = Absent

\* C11: for every name of the index and every value v, the record
\* evaluate_named builds from the answers {name: v} holds v under
\* param(name), and every indexed name the answers leave out has its param
\* set to 0, or to false when its declared input kind is boolean.
C11_NameRoundTrip ==
    op = "evaluate_named" =>
        LET maps == build_name_param_maps(standard)
            index == maps.name_to_param
        IN  \A i \in DOMAIN index :
                /\ OnlyAnswer(answers_by_name, index[i].name) =>
                       building_data[index[i].param]
                           = answers_by_name[index[i].name]
                /\ ~InDict(answers_by_name, index[i].name) =>
                       building_data[index[i].param]
                           = skipped_value(maps.name_to_input_type,
                                           index[i].name)


C13_RubricUnchanged == [][standard' = standard]_vars

\* C13 witness: an aggregation over a rubric with two categories has scored
\* a credit and clamped a category, and the rubric still holds its maxima
C13_Witness ==
    /\ op = "calculate_total_score"
    /\ ~ret.raised
    /\ Len(standard.categories) = MaxLen
    /\ evals > 1
    /\ \E i \in DOMAIN standard.categories :
           /\ Reported(standard.categories, i)
           /\ ret.category_scores[standard.categories[i].id]
                  < standard.categories[i].max_points


\* the values a request can carry under a key
RequestVals == {Absent, Null, Text, Bool(TRUE), Num(MaxVal)}

\* the names the index of a rubric holds
IndexedNames(std) ==
    {build_name_param_maps(std).name_to_param[i].name :
         i \in DOMAIN build_name_param_maps(std).name_to_param}

EligibilityFields == {"building_type", "operational_years"}

NumericParams(c) ==
    LET calc == c.calculation
    IN  CASE calc.type = "conditional_sum" ->
                 {calc.conditions[i].param : i \in DOMAIN calc.conditions}
          [] calc.type = "either_or" ->
                 UNION {{calc.options[i].conditions[j].param :
                             j \in {k \in DOMAIN calc.options[i].conditions :
                                       calc.options[i].conditions[k].threshold
                                           # Absent}} :
                        i \in DOMAIN calc.options}
          [] calc.type = "range_based" -> {calc.param}
          [] calc.type = "composite_sum" ->
                 {calc.parts[i].param : i \in DOMAIN calc.parts}
          [] calc.type = "single_condition" ->
                 {calc.condition.param} \cup
                     (IF calc.additional_requirements.present
                      THEN {calc.additional_requirements.param} ELSE {})
          [] OTHER -> {}

\* a value that is there and is not a number: a string or a boolean
WrongShape(v) == v.t \in {"str", "bool"}

\* C15: a string or a boolean under a param that a credit reads as a number
\* ends the evaluation of that credit in an error; it never yields points.
C15_WrongShapeFails ==
    Called =>
        \A p \in NumericParams(credit) :
            WrongShape(building_data[p]) => ret.raised


\* C16: the credits of a rubric evaluated in any order, then put together
\* in rubric order, give the category scores, total, per-credit results and
\* certification level (or the error) of the sequential evaluation in
\* calculate_total_score.
C16_OrderIndependent ==
    op = "aggregated" =>
        LET t == calculate_total_score(standard, building_data)
        IN  /\ ret.raised = t.raised
            /\ ~t.raised =>
                   /\ ret.total_score = t.total_score
                   /\ ret.category_scores = t.category_scores
                   /\ ret.credit_scores = t.credit_scores
                   /\ ret.certification_level =
                          get_certification_level(standard, t.total_score)

\* C16 witness: every credit of a rubric with two credits in each of its
\* categories was evaluated, and the result put together scored points
C16_Witness ==
    /\ op = "aggregated"
    /\ ~ret.raised
    /\ Len(standard.categories) = MaxLen
    /\ evals = 2 * MaxLen
    /\ ret.total_score > 0


\* the sum of the values of a dict of numbers
RECURSIVE SumOfValues(_, _)
SumOfValues(m, keys) ==
    IF keys = {} THEN 0
    ELSE LET k == CHOOSE x \in keys : TRUE
         IN  m[k] + SumOfValues(m, keys \ {k})

\* C17: after calculate_total_score the maps account for the whole rubric:
\* for every credit of every category credit_scores holds, under the
\* credit's sub id, the points and evidence that credit was awarded; for
\* every category category_scores holds, under its id, its clamped score;
\* and the total is the sum of the values of category_scores.
C17_MapsAccountForRubric ==
    op = "calculate_total_score" /\ ~ret.raised =>
        LET cats == standard.categories
        IN  /\ \A i \in DOMAIN cats :
                   \A j \in DOMAIN cats[i].credits :
                       LET c == cats[i].credits[j]
                           r == calculate_credit_points(c, building_data)
                       IN  /\ c.sub_id \in DOMAIN ret.credit_scores
                           /\ ret.credit_scores[c.sub_id] =
                                  [points |-> r.points,
                                   conditions |-> r.conditions]
            /\ \A i \in DOMAIN cats :
                   /\ cats[i].id \in DOMAIN ret.category_scores
                   /\ ret.category_scores[cats[i].id] =
                          ClampedScore(cats[i], building_data)
            /\ ret.total_score =
                   SumOfValues(ret.category_scores,
                               DOMAIN ret.category_scores)

RECURSIVE SumOfOutcomes(_)
SumOfOutcomes(outcomes) ==
    IF outcomes = <<>> THEN 0
    ELSE Head(outcomes).points + SumOfOutcomes(Tail(outcomes))

ClampedKinds == {"conditional_sum", "either_or", "composite_sum"}

\* the evidence read group by group: a group in which no condition holds
\* lists each of its conditions, in order, as an unsatisfied outcome; a group
\* in which a condition holds lists exactly one satisfied outcome, which
\* names a condition of the group that holds and carries the group's points
RECURSIVE EvidenceFits(_, _, _)
EvidenceFits(options, data, evidence) ==
    IF options = <<>> THEN evidence = <<>>
    ELSE LET option == Head(options)
             n == Len(option.conditions)
         IN  IF GroupHolds(option, data)
             THEN /\ evidence # <<>>
                  /\ Head(evidence).result
                  /\ Head(evidence).points = GroupContribution(option, data)
                  /\ \E i \in DOMAIN option.conditions :
                         /\ ConditionHolds(option.conditions[i], data)
                         /\ Head(evidence).condition
                                = option.conditions[i].name
                  /\ \E k \in 0..(Len(evidence) - 1) :
                         /\ \A j \in 2..(k + 1) : ~evidence[j].result
                         /\ EvidenceFits(Tail(options), data,
                                SubSeq(evidence, k + 2, Len(evidence)))
             ELSE /\ Len(evidence) >= n
                  /\ \A i \in 1..n :
                         evidence[i]
                             = Outcome(option.conditions[i].name, FALSE, 0)
                  /\ EvidenceFits(Tail(options), data,
                         SubSeq(evidence, n + 1, Len(evidence)))

\* C18: the evidence returned by calculate_credit_points is consistent with
\* the points: an outcome with result false carries 0 points; the awarded
\* points are the sum of the points of the outcomes, or the credit's max
\* when that sum exceeds it in a conditional_sum, either_or or composite_sum
\* credit; in an either_or credit a group in which no condition holds lists
\* every condition as an unsatisfied outcome and a group in which a
\* condition holds contributes exactly one satisfied outcome.
C18_EvidenceConsistent ==
    Called /\ ~ret.raised =>
        LET sum == SumOfOutcomes(ret.conditions)
        IN  /\ \A k \in DOMAIN ret.conditions :
                   ~ret.conditions[k].result => ret.conditions[k].points = 0
            /\ ret.points =
                   (IF credit.calculation.type \in ClampedKinds
                          /\ sum > credit.max_points
                    THEN credit.max_points ELSE sum)
            /\ credit.calculation.type = "either_or" =>
                   EvidenceFits(credit.calculation.options, building_data,
                                ret.conditions)

\* C18 witness: an either_or credit of two groups of two conditions; no
\* condition of the first holds, both of the second hold, and the evidence
\* is the two unsatisfied outcomes followed by one satisfied outcome
C18_Witness ==
    /\ Called
    /\ ~ret.raised
    /\ credit.calculation.type = "either_or"
    /\ Len(credit.calculation.options) = 2
    /\ LET first == credit.calculation.options[1]
           second == credit.calculation.options[2]
       IN  /\ Len(first.conditions) = 2
           /\ Len(second.conditions) = 2
           /\ ~GroupHolds(first, building_data)
           /\ \A i \in 1..2 :
                  ConditionHolds(second.conditions[i], building_data)
    /\ Len(ret.conditions) = 3
    /\ ret.points > 0

============================================================================
